---- MODULE Spec2Model ----
(***************************************************************************)
(* Mailing lifecycle and delivery-attempt recording of the mailing_service *)
(* Django application: Mailing.update_status / Mailing.can_send            *)
(* (mailings/models.py), the interactive send_mailing view and             *)
(* toggle_mailing_active (mailings/views.py) and the send_mailings         *)
(* management command (mailings/management/commands/send_mailings.py).     *)
(*                                                                         *)
(* Time is a natural number (timezone.now()); the database rows are the    *)
(* functions mailings / clients and the sequence attempts; every running   *)
(* send handler is one record of invs, holding its local variables.        *)
(***************************************************************************)
EXTENDS Integers, Sequences, FiniteSets, TLC

\* ---------------------------------------------------------------- bounds
MaxTime == 3          \* timezone.now() ranges over 0..MaxTime
MaxClients == 2       \* Client rows 1..MaxClients
MaxInvocations == 2   \* send handlers started in one behaviour

Times == 0..MaxTime

ClientIds == 1..MaxClients
\* the first Mailing row gets pk 1; no second row is created, so pk 2 is
\* the pk of a mailing that does not exist
MailingPk == 1

RequestPks == {MailingPk, MailingPk + 1}

\* ---------------------------------------------------------------- users
Users == {"alice", "bob", "mgr"}

\* the accounts of the site: the three above and an administrator
Accounts == Users \cup {"adm"}

\* users/models.py: role field, ROLE_USER / ROLE_MANAGER / ROLE_ADMIN
Role == [u \in Accounts |-> IF u = "mgr" THEN "manager"
                            ELSE IF u = "adm" THEN "admin" ELSE "user"]

IsSuperuser == [u \in Accounts |-> FALSE]

is_manager(u) == Role[u] = "manager"

is_admin_role(u) == Role[u] = "admin"

can_manage_users(u) == is_manager(u) \/ is_admin_role(u) \/ IsSuperuser[u]

can_view_all_mailings(u) == is_manager(u) \/ is_admin_role(u) \/ IsSuperuser[u]

\* ---------------------------------------------------------------- state
VARIABLES
    now,               \* timezone.now()
    clients,           \* Client rows: id -> [owner, full_name]
    messages,          \* Message rows: id -> [owner, subject]
    mailings,          \* Mailing rows: pk -> [start_time, end_time, status, message,
                       \*                       recipients, owner]
    attempts,          \* MailingAttempt rows in creation order
    toggle_report,     \* pk -> text of the last success message of toggle_mailing_active
    invs,              \* send handlers that entered the recipient loop, in start order
    last_request,      \* the send request decided by the last step, if any
    last_call,         \* the update_status / can_send call made by the last step, if any
    last_form,         \* the Mailing validated (saved or refused) by the last step, if any
    last_read          \* the statuses the last step showed to its caller, if any

vars == <<now, clients, messages, mailings, attempts, toggle_report, invs, last_request,
          last_call, last_form, last_read>>

STATUS_CREATED == "Created"
STATUS_STARTED == "Started"
STATUS_COMPLETED == "Completed"
STATUS_SUCCESS == "Success"
STATUS_FAILED == "Failed"
SuccessResponse == "sent ok"
FailureResponse == "smtp error"

\* ------------------------------------------------- Mailing model methods
\* variant: the else branch names the first status
ComputeStatus_ElseCreated(start_time, end_time, t) ==
    IF t < start_time THEN STATUS_CREATED
    ELSE IF start_time <= t /\ t <= end_time THEN STATUS_STARTED
    ELSE STATUS_CREATED

\* variant: the window is open at end_time
ComputeStatus_ExclusiveEnd(start_time, end_time, t) ==
    IF t < start_time THEN STATUS_CREATED
    ELSE IF start_time <= t /\ t < end_time THEN STATUS_STARTED
    ELSE STATUS_COMPLETED

\* Mailing.update_status, the if / elif / else chain that picks new_status
ComputeStatus(start_time, end_time, t) ==
    IF t < start_time THEN STATUS_CREATED
    ELSE IF start_time <= t /\ t <= end_time THEN STATUS_STARTED
    ELSE STATUS_COMPLETED

\* variant: trusts the stored status
can_send_ByStatus(m, t) == m.status = STATUS_STARTED

\* Mailing.can_send on an instance m at time t
can_send(m, t) == m.start_time <= t /\ t <= m.end_time

\* Attribute lookup mailing.is_active on an instance loaded from the
\* database.  The class body of Mailing binds the name is_active twice: the
\* BooleanField (models.py:105) and then the method (models.py:154).  The
\* second binding replaces the first in the class namespace, so the model
\* has no is_active column and the lookup yields the bound method.
LoadedIsActive == "method"

\* Python truth value of what an is_active attribute can hold
Truthy(v) == v \in {"method", "True"}

PyNot(v) == IF Truthy(v) THEN "False" ELSE "True"

\* ------------------------------------------------------------- helpers
RECURSIVE OrderedRecipients(_)
\* iteration order of a recipients queryset (Client.Meta.ordering)
OrderedRecipients(S) ==
    IF S = {} THEN <<>>
    ELSE LET c == CHOOSE x \in S : \A y \in S : x <= y
         IN <<c>> \o OrderedRecipients(S \ {c})

\* the value of a form field left empty
NoMessage == 0

NoMailing == [start_time |-> 0, end_time |-> 0, status |-> "none",
              message |-> NoMessage, recipients |-> {}, owner |-> "none"]

\* whether the last success message of toggle_mailing_active for row pk
\* said that the mailing was deactivated
Deactivated(pk) == toggle_report[pk] = "deactivated"

NoRequest == [kind |-> "none", pk |-> 0, access |-> FALSE, verdict |-> "none",
              can_send |-> "not called", entered |-> 0]

NoCall == [pk |-> 0, start_time |-> 0, end_time |-> 0, before |-> "none",
           result |-> "none", wrote |-> FALSE, fresh |-> FALSE]

NoForm == [kind |-> "none", is_new |-> FALSE, start_time |-> 0, end_time |-> 0,
           at |-> 0, errors |-> {}, saved |-> FALSE]

\* a response that shows no status
NoRead == [kind |-> "none", shown |-> <<>>]

\* variant: update_status saves on every call
Saves_Always(old_status, new_status) == TRUE

\* update_status: "if self.status != new_status", the only path to save()
Saves(old_status, new_status) == old_status # new_status

\* the record of one update_status call on instance m at time t: before is
\* the status m held, result the one it holds afterwards, wrote whether
\* save() ran; fresh tells that m was loaded from its row in the same step
StatusCall(pk, m, t, fresh) ==
    [pk |-> pk, start_time |-> m.start_time, end_time |-> m.end_time,
     before |-> m.status,
     result |-> ComputeStatus(m.start_time, m.end_time, t),
     wrote |-> Saves(m.status, ComputeStatus(m.start_time, m.end_time, t)),
     fresh |-> fresh]

\* variant: save() without update_fields writes every field of the instance
RowsAfterUpdateStatus_FullSave(pk, m, t) ==
    LET new_status == ComputeStatus(m.start_time, m.end_time, t)
    IN IF Saves(m.status, new_status)
       THEN [mailings EXCEPT ![pk].status = new_status,
                             ![pk].start_time = m.start_time,
                             ![pk].end_time = m.end_time]
       ELSE mailings

\* the Mailing table after instance m (of row pk) ran update_status at t:
\* save(update_fields=['status']) only when the status changed
RowsAfterUpdateStatus(pk, m, t) ==
    LET new_status == ComputeStatus(m.start_time, m.end_time, t)
    IN IF Saves(m.status, new_status)
       THEN [mailings EXCEPT ![pk].status = new_status]
       ELSE mailings

\* variant: whoever may view all mailings may also edit them
MayMutate_ViewersEdit(u, owner) == owner = u \/ can_view_all_mailings(u)

\* OwnerOrManagerRequiredMixin.dispatch for a mutating (POST) request
MayMutate(u, owner) ==
    /\ owner = u \/ can_view_all_mailings(u)
    /\ ~(is_manager(u) /\ owner # u)

\* variant: the past-time test is made for existing mailings too
clean_start_time_OnUpdateToo(is_new, start_time, t) == start_time < t

\* MailingForm.clean_start_time: whether it raises ValidationError
clean_start_time(is_new, start_time, t) == is_new /\ start_time < t

\* variant: both tests are made and their errors collected
MailingFormErrors_Both(is_new, start_time, end_time, t) ==
    (IF clean_start_time(is_new, start_time, t) THEN {"start_time"} ELSE {})
      \cup (IF start_time >= end_time THEN {"end_time"} ELSE {})

\* MailingForm: clean_start_time, then clean; the fields in error.
\* A start_time rejected by clean_start_time is dropped from cleaned_data,
\* so clean() no longer compares it with end_time (and Mailing.clean, run
\* by the form on the instance it builds from cleaned_data, finds the
\* field unset or repeats the verdict of clean()).
MailingFormErrors(is_new, start_time, end_time, t) ==
    IF clean_start_time(is_new, start_time, t) THEN {"start_time"}
    ELSE IF start_time >= end_time THEN {"end_time"}
    ELSE {}

\* variant: equal start_time and end_time pass
MailingCleanErrors_StrictOnly(is_new, start_time, end_time, t) ==
    IF start_time > end_time THEN {"end_time"}
    ELSE IF is_new /\ start_time < t THEN {"start_time"}
    ELSE {}

\* Mailing.clean: the field of the ValidationError it raises, if any; the
\* first raise ends the method
MailingCleanErrors(is_new, start_time, end_time, t) ==
    IF start_time >= end_time THEN {"end_time"}
    ELSE IF is_new /\ start_time < t THEN {"start_time"}
    ELSE {}

\* the recipients field of MailingForm is required
RecipientErrors(R) == IF R = {} THEN {"recipients"} ELSE {}

\* the message field of MailingForm is required
MessageErrors(message) == IF message = NoMessage THEN {"message"} ELSE {}

\* variant: an error on end_time does not stop the save
FormValid_IgnoreEndTime(errors) == errors \subseteq {"end_time"}

\* form.is_valid(): form_valid (the save) runs only without errors
FormValid(errors) == errors = {}

\* the validation just made, as the response reports it
FormResult(kind, is_new, start_time, end_time, errors) ==
    [kind |-> kind, is_new |-> is_new, start_time |-> start_time,
     end_time |-> end_time, at |-> now, errors |-> errors,
     saved |-> FormValid(errors)]

\* MailingForm.__init__: the recipients offered to user u
OwnClients(u) == {c \in DOMAIN clients : clients[c].owner = u}

\* MailingForm.__init__: the messages offered to user u
OwnMessages(u) == {x \in DOMAIN messages : messages[x].owner = u}

\* what the form of user u posts as its message: one of those offered, or
\* nothing when none is offered
MessageChoices(u) == IF OwnMessages(u) = {} THEN {NoMessage} ELSE OwnMessages(u)

\* the text fields of a Client and of a Message, before and after an edit
Names == {"Ann", "Anna"}

Subjects == {"offer", "news"}

FirstName == "Ann"

FirstSubject == "offer"

\* The tables of a fresh installation in which alice has registered her
\* clients and written a message: no Mailing, no MailingAttempt, no request
\* made yet.
Init ==
    /\ now = 0
    /\ clients = [c \in ClientIds |-> [owner |-> "alice", full_name |-> FirstName]]
    /\ messages = [x \in {1} |-> [owner |-> "alice", subject |-> FirstSubject]]
    /\ mailings = <<>>
    /\ attempts = <<>>
    /\ toggle_report = [pk \in RequestPks |-> "none"]
    /\ invs = <<>>
    /\ last_call = NoCall
    /\ last_request = NoRequest
    /\ last_form = NoForm
    /\ last_read = NoRead

\* the clock advances
Tick ==
    /\ now < MaxTime
    /\ now' = now + 1
    /\ last_call' = NoCall
    /\ last_request' = NoRequest
    /\ last_form' = NoForm
    /\ last_read' = NoRead
    /\ UNCHANGED <<messages, clients, mailings, attempts, toggle_report, invs>>

\* MailingCreateView: the MailingForm posted by user u is validated and,
\* when valid, saved with owner = u
MailingCreate(u, message, start_time, end_time, R) ==
    LET errors == MailingFormErrors(TRUE, start_time, end_time, now)
                    \cup RecipientErrors(R) \cup MessageErrors(message)
    IN /\ MailingPk \notin DOMAIN mailings
       /\ R \subseteq OwnClients(u)
       /\ message \in OwnMessages(u) \cup {NoMessage}
       /\ mailings' = IF FormValid(errors)
                      THEN [pk \in {MailingPk} |->
                              [start_time |-> start_time, end_time |-> end_time,
                               status |-> STATUS_CREATED, message |-> message,
                               recipients |-> R, owner |-> u]]
                      ELSE mailings
       /\ last_form' = FormResult("form", TRUE, start_time, end_time, errors)
       /\ last_call' = NoCall
       /\ last_request' = NoRequest
       /\ last_read' = NoRead
       /\ UNCHANGED <<messages, now, clients, attempts, toggle_report, invs>>

\* OwnerOrManagerRequiredMixin.dispatch: the answer to a request it
\* refuses, named after the message it shows
DeniedResponse(u, owner) ==
    [NoForm EXCEPT !.kind = "denied",
                   !.errors = IF owner = u \/ can_view_all_mailings(u)
                              THEN {"manager_read_only"} ELSE {"no_access"}]

\* MailingUpdateView: dispatch lets the POST of user u for row pk through
\* or redirects; the MailingForm let through is validated and, when valid,
\* saved
MailingUpdate(u, pk, message, start_time, end_time, R) ==
    LET errors == MailingFormErrors(FALSE, start_time, end_time, now)
                    \cup RecipientErrors(R) \cup MessageErrors(message)
    IN /\ pk \in DOMAIN mailings
       /\ R \subseteq OwnClients(u)
       /\ message \in OwnMessages(u) \cup {NoMessage}
       /\ mailings' = IF MayMutate(u, mailings[pk].owner) /\ FormValid(errors)
                      THEN [mailings EXCEPT ![pk].start_time = start_time,
                                            ![pk].end_time = end_time,
                                            ![pk].message = message,
                                            ![pk].recipients = R]
                      ELSE mailings
       /\ last_form' = IF MayMutate(u, mailings[pk].owner)
                       THEN FormResult("form", FALSE, start_time, end_time, errors)
                       ELSE DeniedResponse(u, mailings[pk].owner)
       /\ last_call' = NoCall
       /\ last_request' = NoRequest
       /\ last_read' = NoRead
       /\ UNCHANGED <<messages, now, clients, attempts, toggle_report, invs>>

\* ClientDeleteView: dispatch lets the POST through or redirects; the row
\* goes, and with it its recipients links
ClientDelete(u, c) ==
    /\ c \in DOMAIN clients
    /\ clients' = IF MayMutate(u, clients[c].owner)
                  THEN [x \in DOMAIN clients \ {c} |-> clients[x]]
                  ELSE clients
    /\ mailings' = IF MayMutate(u, clients[c].owner)
                   THEN [pk \in DOMAIN mailings |->
                           [mailings[pk] EXCEPT !.recipients = @ \ {c}]]
                   ELSE mailings
    /\ last_call' = NoCall
    /\ last_request' = NoRequest
    /\ last_form' = IF MayMutate(u, clients[c].owner) THEN NoForm
                    ELSE DeniedResponse(u, clients[c].owner)
    /\ last_read' = NoRead
    /\ UNCHANGED <<messages, now, attempts, toggle_report, invs>>

\* MailingDetailView.get_object: load the row, update_status().  dispatch
\* calls get_object before it looks at the caller, so any logged-in user
\* triggers the recompute.
MailingDetail(u, pk) ==
    /\ pk \in DOMAIN mailings
    /\ mailings' = RowsAfterUpdateStatus(pk, mailings[pk], now)
    /\ last_call' = StatusCall(pk, mailings[pk], now, TRUE)
    /\ last_request' = NoRequest
    /\ last_form' = NoForm
    /\ last_read' = IF mailings[pk].owner = u \/ can_view_all_mailings(u)
                    THEN [kind |-> "detail",
                          shown |-> [x \in {pk} |-> mailings'[x].status]]
                    ELSE NoRead
    /\ UNCHANGED <<messages, now, clients, attempts, toggle_report, invs>>

\* toggle_mailing_active: the instance attribute is_active is set to
\* "not mailing.is_active"; save() writes the concrete fields, of which
\* is_active is none; the message names the action
ToggleAction(pk) ==
    IF Truthy(PyNot(LoadedIsActive)) THEN "activated" ELSE "deactivated"

toggle_mailing_active(u, pk) ==
    /\ IF can_manage_users(u) /\ pk \in DOMAIN mailings
       THEN toggle_report' = [toggle_report EXCEPT ![pk] = ToggleAction(pk)]
       ELSE UNCHANGED toggle_report
    /\ last_call' = NoCall
    /\ last_request' = NoRequest
    /\ last_form' = NoForm
    /\ last_read' = NoRead
    /\ UNCHANGED <<messages, now, clients, mailings, attempts, invs>>

\* the windows a form may post, valid or not
Windows == Times \X Times

\* Clients differ only in their identity, so the recipient sets a form posts
\* are taken to be the initial segments 1..k, and clients are deleted from
\* the highest id downwards
RecipientChoices == {1..k : k \in 0..MaxClients}

LastClient(c) == \A x \in DOMAIN clients : x <= c

\* the edits posted to MailingUpdateView: the window postponed by one unit,
\* the message and the recipients resubmitted as they are
EditChoices(row) ==
    {e \in {<<row.message, row.start_time + 1, row.end_time + 1, row.recipients>>} :
        e[3] \in Times}

DataNext ==
    \/ Tick
    \/ \E u \in Users, w \in Windows, R \in RecipientChoices :
          \E message \in MessageChoices(u) : MailingCreate(u, message, w[1], w[2], R)
    \/ \E u \in Users, pk \in DOMAIN mailings :
          \E e \in EditChoices(mailings[pk]) :
             MayMutate(u, mailings[pk].owner) /\ MailingUpdate(u, pk, e[1], e[2], e[3], e[4])
    \/ \E u \in Users, c \in DOMAIN clients :
          LastClient(c) /\ MayMutate(u, clients[c].owner) /\ ClientDelete(u, c)
    \/ \E u \in Users, pk \in RequestPks : MailingDetail(u, pk)
    \/ \E u \in Users, pk \in RequestPks : toggle_mailing_active(u, pk)

\* ------------------------------------------------------ the send handlers
\* variant: no recipients.exists() test
WebPreconditions_NoRecipientCheck(u, pk, t) ==
    IF pk \notin DOMAIN mailings THEN "not_found"
    ELSE IF mailings[pk].owner # u /\ ~can_view_all_mailings(u) THEN "access_denied"
    ELSE IF ~Truthy(LoadedIsActive) THEN "inactive"
    ELSE IF ~can_send(mailings[pk], t) THEN "out_of_window"
    ELSE "ok"

\* the precondition chain of the send_mailing view, as the branch taken
WebPreconditions(u, pk, t) ==
    IF pk \notin DOMAIN mailings THEN "not_found"
    ELSE IF mailings[pk].owner # u /\ ~can_view_all_mailings(u) THEN "access_denied"
    ELSE IF ~Truthy(LoadedIsActive) THEN "inactive"
    ELSE IF ~can_send(mailings[pk], t) THEN "out_of_window"
    ELSE IF mailings[pk].recipients = {} THEN "no_recipients"
    ELSE "ok"

\* variant: refuses a mailing that already has attempts
CliPreconditions_OncePerMailing(pk, t) ==
    IF pk \notin DOMAIN mailings THEN "not_found"
    ELSE IF ~can_send(mailings[pk], t) THEN "out_of_window"
    ELSE IF mailings[pk].recipients = {} THEN "no_recipients"
    ELSE IF \E k \in DOMAIN attempts : attempts[k].mailing = pk THEN "already_sent"
    ELSE "ok"

\* the precondition chain of the send_mailings command
CliPreconditions(pk, t) ==
    IF pk \notin DOMAIN mailings THEN "not_found"
    ELSE IF ~can_send(mailings[pk], t) THEN "out_of_window"
    ELSE IF mailings[pk].recipients = {} THEN "no_recipients"
    ELSE "ok"

\* variant: the out-of-window branch lacks its return
Proceeds_FallThrough(verdict) == verdict \in {"ok", "out_of_window"}

\* every refusing branch ends in return: the loop is entered only when no
\* branch was taken
Proceeds(verdict) == verdict = "ok"

\* whether the chain got as far as calling can_send
ReachedCanSend(verdict) == verdict \in {"out_of_window", "no_recipients", "ok"}

\* variant: the loop leaves out the last recipient
BatchDone_OneEarly(todo) == Len(todo) <= 1

\* the for loop over recipients is over when none is left
BatchDone(todo) == todo = <<>>

\* variant: the except branch ends the loop
RemainingAfter_StopOnFailure(todo, ok) == IF ok THEN Tail(todo) ELSE <<>>

\* what is left to iterate after one pass: the except branch records the
\* failure and the loop goes on
RemainingAfter(todo, ok) == Tail(todo)

\* variant: a counter is incremented on either branch
CountAfter_Always(count, hit) == count + 1

\* success_count += 1 / failed_count += 1
CountAfter(count, hit) == IF hit THEN count + 1 ELSE count

\* the MailingAttempt row written for recipient c by handler i (inv tells
\* which handler wrote the row; the auto_now_add timestamp is left out);
\* ok tells the branch that wrote it, text is the str(e) of the except
\* branch
AttemptRow(i, pk, c, ok, text) ==
    [mailing |-> pk,
     status |-> IF ok THEN STATUS_SUCCESS ELSE STATUS_FAILED,
     server_response |-> IF ok THEN SuccessResponse ELSE text,
     recipient_email |-> c, inv |-> i]

\* variant: one row per mailing and recipient, a later attempt replaces it
CreateAttempt_OnePerRecipient(ledger, row) ==
    Append(SelectSeq(ledger, LAMBDA r : ~(r.mailing = row.mailing
                                           /\ r.recipient_email = row.recipient_email)),
           row)

\* MailingAttempt.objects.create: a new row, whatever the ledger holds
CreateAttempt(ledger, row) == Append(ledger, row)

NoLocal == [start_time |-> 0, end_time |-> 0, status |-> "none"]

LocalOf(row) == [start_time |-> row.start_time, end_time |-> row.end_time,
                 status |-> row.status]

\* no handler is in its loop: each has returned or has raised
AllReturned == \A i \in DOMAIN invs : invs[i].pc \in {"returned", "raised"}

\* what send_mail can raise, as str(e)
Diagnostics == {FailureResponse, "mailbox full"}

\* str(e) of the exception MailingAttempt.objects.create raises
StoreError == "database error"

\* whether the database takes the first and the second INSERT of one pass of
\* the loop
StoreOutcomes == BOOLEAN \X BOOLEAN

StoreUp == <<TRUE, TRUE>>

\* MailingAttempt.objects.create(mailing=...) succeeds when the database is
\* available and the Mailing row is still there (foreign key)
Creates(pk, up) == up /\ pk \in DOMAIN mailings

\* One pass of "try: send_mail; create(SUCCESS) except Exception:
\* create(FAILED)".  The except branch catches what send_mail raises and
\* also what the create of the try branch raises; what the create of the
\* except branch raises leaves the handler.  first and second tell whether
\* the first and the second create of the pass succeed.
LoopPass(ok, first, second) ==
    IF ok THEN (IF first THEN "success"
                ELSE IF second THEN "failed" ELSE "raised")
    ELSE IF first THEN "failed" ELSE "raised"

\* a handler starts: the row is loaded, the preconditions are decided and,
\* when they hold, the recipients queryset is what the loop will iterate.
\* A refused handler returns within the step; one that proceeds becomes the
\* next element of invs.
Begin(kind, pk, verdict, access) ==
    LET found == pk \in DOMAIN mailings
        row == IF found THEN mailings[pk] ELSE NoMailing
        go == Proceeds(verdict) /\ found
    IN /\ go => Len(invs) < MaxInvocations
       /\ invs' = IF go
                  THEN Append(invs,
                         [kind |-> kind, pk |-> pk, access |-> access,
                          verdict |-> verdict,
                          pc |-> "loop", m |-> LocalOf(row),
                          in_window |-> row.start_time <= now /\ now <= row.end_time,
                          deact |-> Deactivated(pk),
                          todo |-> OrderedRecipients(row.recipients),
                          recips |-> row.recipients,
                          success_count |-> 0, failed_count |-> 0,
                          sent |-> <<>>, recomputes |-> 0, recomputed_after |-> 0])
                  ELSE invs
       /\ last_request' =
            [kind |-> kind, pk |-> pk, access |-> access, verdict |-> verdict,
             can_send |-> IF found /\ ReachedCanSend(verdict)
                          THEN (IF can_send(row, now) THEN "True" ELSE "False")
                          ELSE "not called",
             entered |-> IF go THEN Len(invs) + 1 ELSE 0]
       /\ last_call' = NoCall
       /\ last_form' = NoForm
       /\ last_read' = NoRead
       /\ UNCHANGED <<messages, now, clients, mailings, attempts, toggle_report>>

\* send_mailing(request, pk) up to the loop
send_mailing(u, pk) ==
    Begin("web", pk, WebPreconditions(u, pk, now),
          pk \in DOMAIN mailings
            /\ (mailings[pk].owner = u \/ can_view_all_mailings(u)))

\* Command.handle(mailing_id) up to the loop
send_mailings(pk) ==
    Begin("cli", pk, CliPreconditions(pk, now), pk \in DOMAIN mailings)

\* one pass of the loop: send_mail for the next recipient, which succeeds
\* (ok) or raises diag, and the MailingAttempt row for it, with the
\* database answering the creates as db tells
SendOne(i, ok, diag, db) ==
    /\ i \in DOMAIN invs
    /\ invs[i].pc = "loop"
    /\ ~BatchDone(invs[i].todo)
    /\ LET c == Head(invs[i].todo)
           pk == invs[i].pk
           pass == LoopPass(ok, Creates(pk, db[1]), Creates(pk, db[2]))
           text == IF ok THEN StoreError ELSE diag
           call == [client |-> c, ok |-> ok, diag |-> IF ok THEN "" ELSE diag,
                    create_failed |-> ~Creates(pk, db[1])]
       IN /\ attempts' = IF pass = "raised" THEN attempts
                         ELSE CreateAttempt(attempts,
                                AttemptRow(i, pk, c, pass = "success", text))
          /\ invs' = IF pass = "raised"
                     THEN [invs EXCEPT ![i].pc = "raised",
                                       ![i].sent = Append(@, call)]
                     ELSE [invs EXCEPT
                             ![i].todo = RemainingAfter(@, pass = "success"),
                             ![i].success_count = CountAfter(@, pass = "success"),
                             ![i].failed_count = CountAfter(@, pass = "failed"),
                             ![i].sent = Append(@, call)]
    /\ last_call' = NoCall
    /\ last_request' = NoRequest
    /\ last_form' = NoForm
    /\ last_read' = NoRead
    /\ UNCHANGED <<messages, now, clients, mailings, toggle_report>>

\* after the loop: mailing.update_status() on the handler's instance, then
\* the summary messages.  When the row was deleted meanwhile,
\* save(update_fields=['status']) updates no row and raises.
Finish(i) ==
    /\ i \in DOMAIN invs
    /\ invs[i].pc = "loop"
    /\ BatchDone(invs[i].todo)
    /\ mailings' = IF invs[i].pk \in DOMAIN mailings
                   THEN RowsAfterUpdateStatus(invs[i].pk, invs[i].m, now)
                   ELSE mailings
    /\ last_call' = IF invs[i].pk \in DOMAIN mailings
                    THEN StatusCall(invs[i].pk, invs[i].m, now, FALSE)
                    ELSE NoCall
    /\ last_request' = NoRequest
    /\ last_form' = NoForm
    /\ last_read' = NoRead
    /\ invs' = [invs EXCEPT
          ![i].pc = IF invs[i].pk \in DOMAIN mailings
                       \/ ~StatusCall(invs[i].pk, invs[i].m, now, FALSE).wrote
                    THEN "returned" ELSE "raised",
          ![i].m = NoLocal,
          ![i].kind = "done",
          ![i].access = TRUE,
          ![i].in_window = TRUE,
          ![i].deact = FALSE,
          ![i].recomputes = @ + 1,
          ![i].recomputed_after = Len(invs[i].sent)]
    /\ UNCHANGED <<messages, now, clients, attempts, toggle_report>>

\* Send requests are issued one after the other: a handler starts when the
\* previous one has returned.
SendNext ==
    \/ \E u \in Users, pk \in RequestPks : AllReturned /\ send_mailing(u, pk)
    \/ \E pk \in RequestPks : AllReturned /\ send_mailings(pk)
    \/ \E i \in 1..MaxInvocations, ok \in BOOLEAN :
          SendOne(i, ok, FailureResponse, StoreUp)
    \/ \E i \in 1..MaxInvocations : Finish(i)

Next == DataNext \/ SendNext

Spec == Init /\ [][Next]_vars

\* ------------------------------------------------------------ properties
InWindowNow(pk) ==
    pk \in DOMAIN mailings
      /\ mailings[pk].start_time <= now /\ now <= mailings[pk].end_time

AttemptsOf(i) == {k \in DOMAIN attempts : attempts[k].inv = i}

AttemptsWith(i, status) == {k \in AttemptsOf(i) : attempts[k].status = status}

\* the transport calls of handler i that raised
FailedSends(i) == {k \in DOMAIN invs[i].sent : ~invs[i].sent[k].ok}

SentTo(i) == {invs[i].sent[k].client : k \in DOMAIN invs[i].sent}

Pending(i) == {invs[i].todo[k] : k \in DOMAIN invs[i].todo}

Refusals == {"not_found", "access_denied", "out_of_window"}

\* C1: right after any update_status call at time now, the status of the
\* instance is Created iff now < start_time, Started iff
\* start_time <= now <= end_time, Completed iff now > end_time, and the row
\* holds that status when the call wrote it or the instance was just loaded.
C1_StatusDerivedFromWindow ==
    last_call.pk # 0 =>
        /\ (last_call.result = STATUS_CREATED) <=> (now < last_call.start_time)
        /\ (last_call.result = STATUS_STARTED) <=>
              (last_call.start_time <= now /\ now <= last_call.end_time)
        /\ (last_call.result = STATUS_COMPLETED) <=> (now > last_call.end_time)
        /\ (last_call.fresh \/ last_call.before # last_call.result) =>
              mailings[last_call.pk].status = last_call.result

\* an update_status call at the instant end_time moved the status to Started
C1_Witness ==
    /\ last_call.pk # 0
    /\ now = last_call.end_time
    /\ last_call.before = STATUS_CREATED
    /\ last_call.result = STATUS_STARTED
    /\ mailings[last_call.pk].status = STATUS_STARTED

\* C2: whenever a send handler calls can_send, the result is true exactly
\* when start_time <= now <= end_time, whatever toggle_mailing_active has
\* reported and whatever status the row holds.
C2_CanSendIsWindowOnly ==
    last_request.can_send # "not called" =>
        ((last_request.can_send = "True") <=> InWindowNow(last_request.pk))

\* can_send answered true for a mailing reported deactivated whose row
\* holds the stale status Completed
C2_Witness ==
    /\ last_request.can_send = "True"
    /\ Deactivated(last_request.pk)
    /\ mailings[last_request.pk].status = STATUS_COMPLETED

\* C3: a send_mailing request for a mailing that toggle_mailing_active has
\* reported deactivated never invokes the transport and never records an
\* attempt.
C3_DeactivatedSendRefused ==
    \A i \in DOMAIN invs :
        (invs[i].kind = "web" /\ invs[i].deact) =>
            (invs[i].sent = <<>> /\ AttemptsOf(i) = {})

\* C4: the command decides as the view does for a caller with access, and
\* in particular never sends for a mailing reported deactivated.
C4_CommandSamePreconditions ==
    /\ \A pk \in DOMAIN mailings : \A u \in Users :
          (mailings[pk].owner = u \/ can_view_all_mailings(u)) =>
              (Proceeds(CliPreconditions(pk, now))
                  <=> Proceeds(WebPreconditions(u, pk, now)))
    /\ \A i \in DOMAIN invs :
          (invs[i].kind = "cli" /\ invs[i].deact) =>
              (invs[i].sent = <<>> /\ AttemptsOf(i) = {})

C6_EveryRecipientOnce ==
    \A i \in DOMAIN invs :
        /\ \A k1, k2 \in DOMAIN invs[i].sent :
              invs[i].sent[k1].client = invs[i].sent[k2].client => k1 = k2
        /\ \A c \in SentTo(i) :
              Cardinality({k \in AttemptsOf(i) : attempts[k].recipient_email = c}) = 1
        /\ SentTo(i) \cup Pending(i) = invs[i].recips
        /\ invs[i].pc = "returned" => SentTo(i) = invs[i].recips

\* the transport failed for the first of two recipients and the second was
\* sent to all the same
C6_Witness ==
    \E i \in DOMAIN invs :
        /\ invs[i].pc = "returned"
        /\ Len(invs[i].sent) = 2
        /\ ~invs[i].sent[1].ok
        /\ Cardinality(AttemptsOf(i)) = 2

\* C7: a handler calls update_status not at all while it iterates and
\* exactly once by the time it has returned, and that call came after the
\* send and the attempt row of every recipient.
C7_RecomputeOnceAfterBatch ==
    \A i \in DOMAIN invs :
        /\ invs[i].pc = "loop" => invs[i].recomputes = 0
        /\ invs[i].pc = "returned" =>
              /\ invs[i].recomputes = 1
              /\ invs[i].recomputed_after = Cardinality(invs[i].recips)
              /\ invs[i].recomputed_after = Cardinality(AttemptsOf(i))

\* the step just taken was the recompute of a batch over two recipients
C7_Witness ==
    /\ last_call.pk # 0
    /\ ~last_call.fresh
    /\ \E i \in DOMAIN invs :
          /\ invs[i].pc = "returned"
          /\ invs[i].recomputes = 1
          /\ invs[i].recomputed_after = 2

\* C8: a send request by a caller with access for a mailing not reported
\* deactivated, inside its window and without recipients, is answered with
\* the no-recipients warning and starts no batch; no batch ever runs over
\* an empty recipient set.
C8_NoRecipientsWarning ==
    /\ \A i \in DOMAIN invs : invs[i].recips # {}
    /\ (/\ last_request.kind # "none"
        /\ last_request.access
        /\ InWindowNow(last_request.pk)
        /\ ~Deactivated(last_request.pk)
        /\ mailings[last_request.pk].recipients = {})
       => (last_request.verdict = "no_recipients" /\ last_request.entered = 0)

\* the warning was given for such a mailing and the ledger is empty
C8_Witness ==
    /\ last_request.verdict = "no_recipients"
    /\ InWindowNow(last_request.pk)
    /\ ~Deactivated(last_request.pk)
    /\ mailings[last_request.pk].recipients = {}
    /\ attempts = <<>>

\* C9: a send request for a missing mailing, by a caller without access or
\* outside the window is refused without starting a batch, and every
\* handler that iterates was admitted inside the window with access.
C9_RefusedBeforeFirstSend ==
    /\ \A i \in DOMAIN invs :
          invs[i].verdict \notin Refusals /\ invs[i].in_window /\ invs[i].access
    /\ (/\ last_request.kind # "none"
        /\ \/ last_request.pk \notin DOMAIN mailings
           \/ ~last_request.access
           \/ ~InWindowNow(last_request.pk))
       => (last_request.verdict \in Refusals /\ last_request.entered = 0)

\* a request outside the window was refused while the mailing has recipients
C9_Witness ==
    /\ last_request.verdict = "out_of_window"
    /\ last_request.entered = 0
    /\ mailings[last_request.pk].recipients # {}

\* C10: two returned handlers on the same mailing with the same recipients
\* left two attempts per recipient and made 2N transport calls, and a
\* request that meets the preconditions is admitted although attempts for
\* the mailing already exist.
C10_NoDeduplication ==
    /\ \A i, j \in DOMAIN invs :
          (/\ i < j
           /\ invs[i].pc = "returned" /\ invs[j].pc = "returned"
           /\ invs[i].pk = invs[j].pk
           /\ invs[i].recips = invs[j].recips) =>
              /\ \A c \in invs[i].recips :
                    Cardinality({k \in AttemptsOf(i) \cup AttemptsOf(j) :
                                    attempts[k].recipient_email = c
                                      /\ attempts[k].mailing = invs[i].pk}) = 2
              /\ Cardinality(AttemptsOf(i) \cup AttemptsOf(j))
                    = 2 * Cardinality(invs[i].recips)
              /\ Len(invs[i].sent) + Len(invs[j].sent)
                    = 2 * Cardinality(invs[i].recips)
    /\ (/\ last_request.kind # "none"
        /\ last_request.access
        /\ InWindowNow(last_request.pk)
        /\ ~Deactivated(last_request.pk)
        /\ mailings[last_request.pk].recipients # {})
       => (last_request.verdict = "ok" /\ last_request.entered # 0)

\* a second batch over the same two recipients returned
C10_Witness ==
    /\ Len(invs) >= 2
    /\ invs[1].pc = "returned" /\ invs[2].pc = "returned"
    /\ invs[1].pk = invs[2].pk
    /\ invs[1].recips = invs[2].recips
    /\ Cardinality(invs[1].recips) = 2
    /\ Len(attempts) = 4
\* ------------------------------------------ every page, form and command
\* the status pages: the rows of the queryset after update_status ran on
\* each instance of S at time t
RowsAfterUpdateAll(S, t) ==
    [pk \in DOMAIN mailings |->
        IF pk \in S /\ Saves(mailings[pk].status,
                              ComputeStatus(mailings[pk].start_time,
                                            mailings[pk].end_time, t))
        THEN [mailings[pk] EXCEPT
                 !.status = ComputeStatus(mailings[pk].start_time,
                                          mailings[pk].end_time, t)]
        ELSE mailings[pk]]

\* OwnerRequiredMixin.get_queryset: the rows user u lists
VisibleTo(u) ==
    {pk \in DOMAIN mailings : can_view_all_mailings(u) \/ mailings[pk].owner = u}

\* MailingListView.get_queryset: update_status on every listed row, then
\* the list shows them
MailingList(u) ==
    /\ mailings' = RowsAfterUpdateAll(VisibleTo(u), now)
    /\ last_read' = [kind |-> "list",
                     shown |-> [pk \in VisibleTo(u) |-> mailings'[pk].status]]
    /\ last_call' = NoCall
    /\ last_request' = NoRequest
    /\ last_form' = NoForm
    /\ UNCHANGED <<messages, now, clients, attempts, toggle_report, invs>>

\* the visitor of the home page who is not logged in
Anonymous == "anonymous"

\* HomeView.get_context_data.  For a logged-in user the statuses of the
\* user's rows are updated, and then filter(status=..., is_active=True)
\* names a field the model does not have (see LoadedIsActive): FieldError,
\* no page.  For an anonymous visitor the rows are counted by their stored
\* status, without update_status.
HomeView(u) ==
    /\ mailings' = IF u = Anonymous THEN mailings
                   ELSE RowsAfterUpdateAll(VisibleTo(u), now)
    /\ last_read' = IF u = Anonymous
                    THEN [kind |-> "home",
                          shown |-> [pk \in DOMAIN mailings |-> mailings[pk].status]]
                    ELSE NoRead
    /\ last_call' = NoCall
    /\ last_request' = NoRequest
    /\ last_form' = NoForm
    /\ UNCHANGED <<messages, now, clients, attempts, toggle_report, invs>>

\* user_statistics: the rows of user u are counted by their stored status,
\* without update_status; then filter(is_active=False) names the missing
\* field: FieldError, no page
user_statistics(u) ==
    /\ last_read' = NoRead
    /\ last_call' = NoCall
    /\ last_request' = NoRequest
    /\ last_form' = NoForm
    /\ UNCHANGED <<messages, now, clients, mailings, attempts, toggle_report, invs>>

\* the clients create_test_data registers (get_or_create, no owner), as one
\* row
TestClient == MaxClients + 1

\* the Message rows users write have the ids 1 and 2
MessageIds == {1, 2}

\* create_test_data, messages_data: the k-th message it registers
\* (get_or_create, no owner)
TestMessage(k) == Cardinality(MessageIds) + k

\* create_test_data, mailings_data: the three windows as offsets from now
\* (+1h..+7d, -2h..+3d, -5d..-1d), in units of the model's clock
TestWindows == <<<<1, 2>>, <<-1, 1>>, <<-2, -1>>>>

\* create_test_data on a database without mailings: Mailing.objects.create
\* for each entry (no validation, no owner), recipients.set, update_status;
\* last_form tells of the last row saved
create_test_data ==
    /\ mailings = <<>>
    /\ clients' = [c \in DOMAIN clients \cup {TestClient} |->
                     IF c \in DOMAIN clients THEN clients[c]
                     ELSE [owner |-> "none", full_name |-> FirstName]]
    /\ messages' = [x \in DOMAIN messages
                            \cup {TestMessage(k) : k \in 1..Len(TestWindows)} |->
                      IF x \in DOMAIN messages THEN messages[x]
                      ELSE [owner |-> "none", subject |-> FirstSubject]]
    /\ mailings' = [pk \in 1..Len(TestWindows) |->
                      [start_time |-> now + TestWindows[pk][1],
                       end_time |-> now + TestWindows[pk][2],
                       status |-> ComputeStatus(now + TestWindows[pk][1],
                                                now + TestWindows[pk][2], now),
                       message |-> TestMessage(pk),
                       recipients |-> {TestClient},
                       owner |-> "none"]]
    /\ last_form' = [kind |-> "create_test_data", is_new |-> TRUE,
                     start_time |-> now + TestWindows[Len(TestWindows)][1],
                     end_time |-> now + TestWindows[Len(TestWindows)][2],
                     at |-> now, errors |-> {}, saved |-> TRUE]
    /\ last_call' = NoCall
    /\ last_request' = NoRequest
    /\ last_read' = NoRead
    /\ UNCHANGED <<now, attempts, toggle_report, invs>>

\* the staff account of the admin site
AdminUsers == {"root"}

\* MailingAdmin, add view: the model form runs Mailing.clean; the row is
\* saved without owner
AdminMailingAdd(a, message, start_time, end_time, R) ==
    LET errors == MailingCleanErrors(TRUE, start_time, end_time, now)
                    \cup RecipientErrors(R) \cup MessageErrors(message)
    IN /\ MailingPk \notin DOMAIN mailings
       /\ R \subseteq DOMAIN clients
       /\ message \in DOMAIN messages \cup {NoMessage}
       /\ mailings' = IF FormValid(errors)
                      THEN [pk \in {MailingPk} |->
                              [start_time |-> start_time, end_time |-> end_time,
                               status |-> STATUS_CREATED, message |-> message,
                               recipients |-> R, owner |-> "none"]]
                      ELSE mailings
       /\ last_form' = FormResult("admin", TRUE, start_time, end_time, errors)
       /\ last_call' = NoCall
       /\ last_request' = NoRequest
       /\ last_read' = NoRead
       /\ UNCHANGED <<messages, now, clients, attempts, toggle_report, invs>>

\* MailingAdmin, change view.  MailingAttemptInline shows the attempts of
\* the row with every field read-only, extra = 0 and can_delete = False, so
\* the view posts no attempt.
AdminMailingChange(a, pk, message, start_time, end_time, R) ==
    LET errors == MailingCleanErrors(FALSE, start_time, end_time, now)
                    \cup RecipientErrors(R) \cup MessageErrors(message)
    IN /\ pk \in DOMAIN mailings
       /\ R \subseteq DOMAIN clients
       /\ message \in DOMAIN messages \cup {NoMessage}
       /\ mailings' = IF FormValid(errors)
                      THEN [mailings EXCEPT ![pk].start_time = start_time,
                                            ![pk].end_time = end_time,
                                            ![pk].message = message,
                                            ![pk].recipients = R]
                      ELSE mailings
       /\ last_form' = FormResult("admin", FALSE, start_time, end_time, errors)
       /\ last_call' = NoCall
       /\ last_request' = NoRequest
       /\ last_read' = NoRead
       /\ UNCHANGED <<messages, now, clients, attempts, toggle_report, invs>>

\* the recipients a form posts where only the window is of interest
FormRecipients == {{}, {1}}

\* one send request, by the view or by the command, and its batch
FirstSend ==
    \/ \E u \in Users, pk \in RequestPks : invs = <<>> /\ send_mailing(u, pk)
    \/ \E pk \in RequestPks : invs = <<>> /\ send_mailings(pk)
    \/ \E ok \in BOOLEAN : SendOne(1, ok, FailureResponse, StoreUp)
    \/ Finish(1)

\* The requests that validate or save a Mailing, with any window posted,
\* served one at a time: a form is handled when no batch is running.
FormsNext ==
    \/ Tick
    \/ \E u \in Users, w \in Windows, R \in FormRecipients :
          \E message \in MessageChoices(u) :
             AllReturned /\ MailingCreate(u, message, w[1], w[2], R)
    \/ \E u \in Users, pk \in DOMAIN mailings \cap {MailingPk}, w \in Windows :
          /\ AllReturned
          /\ MayMutate(u, mailings[pk].owner)
          /\ MailingUpdate(u, pk, mailings[pk].message, w[1], w[2],
                           mailings[pk].recipients)
    \/ AllReturned /\ create_test_data
    \/ \E a \in AdminUsers, w \in Windows, R \in FormRecipients :
          \E message \in DOMAIN messages :
             AllReturned /\ AdminMailingAdd(a, message, w[1], w[2], R)
    \/ \E a \in AdminUsers, pk \in DOMAIN mailings \cap {MailingPk}, w \in Windows :
          AllReturned /\ AdminMailingChange(a, pk, mailings[pk].message, w[1], w[2],
                                            mailings[pk].recipients)
    \/ \E u \in Users, pk \in RequestPks : AllReturned /\ MailingDetail(u, pk)
    \/ \E u \in Users : AllReturned /\ toggle_mailing_active(u, MailingPk)
    \/ FirstSend

SpecForms == Init /\ [][FormsNext]_vars

\* The pages that show or count statuses, next to what makes a status
\* stale: the clock, new rows and the send handlers.
ReadsNext ==
    \/ Tick
    \/ \E u \in Users, w \in Windows, R \in FormRecipients :
          \E message \in MessageChoices(u) : MailingCreate(u, message, w[1], w[2], R)
    \/ create_test_data
    \/ \E u \in Users, pk \in RequestPks : MailingDetail(u, pk)
    \/ \E u \in Users : MailingList(u)
    \/ \E u \in Users \cup {Anonymous} : HomeView(u)
    \/ \E u \in Users : user_statistics(u)
    \/ SendNext

SpecReads == Init /\ [][ReadsNext]_vars

\* ------------------------------------------------ deletion and the admin
\* MailingDeleteView: dispatch lets the POST through or redirects; the
\* row goes and, by on_delete=CASCADE, its attempts
MailingDelete(u, pk) ==
    /\ pk \in DOMAIN mailings
    /\ mailings' = IF MayMutate(u, mailings[pk].owner)
                   THEN [x \in DOMAIN mailings \ {pk} |-> mailings[x]]
                   ELSE mailings
    /\ attempts' = IF MayMutate(u, mailings[pk].owner)
                   THEN SelectSeq(attempts, LAMBDA r : r.mailing # pk)
                   ELSE attempts
    /\ last_call' = NoCall
    /\ last_request' = NoRequest
    /\ last_form' = IF MayMutate(u, mailings[pk].owner) THEN NoForm
                    ELSE DeniedResponse(u, mailings[pk].owner)
    /\ last_read' = NoRead
    /\ UNCHANGED <<messages, now, clients, toggle_report, invs>>

\* variant: the ModelAdmin default, add allowed to the staff account
has_add_permission_Default(a) == a \in AdminUsers

\* MailingAttemptAdmin.has_add_permission
has_add_permission(a) == FALSE

\* MailingAttemptAdmin, add view: refused unless has_add_permission
AdminAttemptAdd(a, pk, status) ==
    /\ pk \in DOMAIN mailings
    /\ attempts' = IF has_add_permission(a)
                   THEN Append(attempts,
                               [mailing |-> pk, status |-> status,
                                server_response |-> "", recipient_email |-> 0,
                                inv |-> 0])
                   ELSE attempts
    /\ last_call' = NoCall
    /\ last_request' = NoRequest
    /\ last_form' = NoForm
    /\ last_read' = NoRead
    /\ UNCHANGED <<messages, now, clients, mailings, toggle_report, invs>>

\* MailingAttemptAdmin, change view: only attempt_time is read-only; of
\* the fields the form saves, the status is the one edited here
AdminAttemptChange(a, k, status) ==
    /\ k \in DOMAIN attempts
    /\ attempts' = [attempts EXCEPT ![k].status = status]
    /\ last_call' = NoCall
    /\ last_request' = NoRequest
    /\ last_form' = NoForm
    /\ last_read' = NoRead
    /\ UNCHANGED <<messages, now, clients, mailings, toggle_report, invs>>

\* MailingAttemptAdmin, delete view (and the delete_selected action)
AdminAttemptDelete(a, k) ==
    /\ k \in DOMAIN attempts
    /\ attempts' = SubSeq(attempts, 1, k - 1) \o SubSeq(attempts, k + 1, Len(attempts))
    /\ last_call' = NoCall
    /\ last_request' = NoRequest
    /\ last_form' = NoForm
    /\ last_read' = NoRead
    /\ UNCHANGED <<messages, now, clients, mailings, toggle_report, invs>>

AttemptStatuses == {STATUS_SUCCESS, STATUS_FAILED}

\* the ledger positions a model with MaxInvocations batches can fill
AttemptSlots == 1..(MaxInvocations * (MaxClients + 1))

\* The site with its admin screens, requests served one at a time.  The
\* model keeps one pk for the rows made through forms, so a row is made
\* while no batch has run.
AdminNext ==
    \/ Tick
    \/ \E u \in Users, w \in Windows, R \in FormRecipients :
          \E message \in MessageChoices(u) :
             invs = <<>> /\ MailingCreate(u, message, w[1], w[2], R)
    \/ \E u \in Users, pk \in DOMAIN mailings \cap {MailingPk} :
          \E e \in EditChoices(mailings[pk]) :
             /\ AllReturned
             /\ MayMutate(u, mailings[pk].owner)
             /\ MailingUpdate(u, pk, e[1], e[2], e[3], e[4])
    \/ invs = <<>> /\ create_test_data
    \/ \E a \in AdminUsers, w \in Windows, R \in FormRecipients :
          \E message \in DOMAIN messages :
             invs = <<>> /\ AdminMailingAdd(a, message, w[1], w[2], R)
    \/ \E a \in AdminUsers, pk \in DOMAIN mailings \cap {MailingPk} :
          \E e \in EditChoices(mailings[pk]) :
             AllReturned /\ AdminMailingChange(a, pk, e[1], e[2], e[3], e[4])
    \/ \E u \in Users, pk \in DOMAIN mailings :
          AllReturned /\ MayMutate(u, mailings[pk].owner) /\ MailingDelete(u, pk)
    \/ \E u \in Users, pk \in RequestPks : AllReturned /\ MailingDetail(u, pk)
    \/ \E u \in Users : AllReturned /\ toggle_mailing_active(u, MailingPk)
    \/ \E a \in AdminUsers, pk \in RequestPks, st \in AttemptStatuses :
          AllReturned /\ AdminAttemptAdd(a, pk, st)
    \/ \E a \in AdminUsers, k \in AttemptSlots, st \in AttemptStatuses :
          AllReturned /\ AdminAttemptChange(a, k, st)
    \/ \E a \in AdminUsers, k \in AttemptSlots :
          AllReturned /\ AdminAttemptDelete(a, k)
    \/ SendNext

SpecAdmin == Init /\ [][AdminNext]_vars

\* ------------------------------------------- overlapping send invocations
\* alice has just created a mailing that opens at once
InitConc ==
    /\ now = 0
    /\ clients = [c \in ClientIds |-> [owner |-> "alice", full_name |-> FirstName]]
    /\ messages = [x \in {1} |-> [owner |-> "alice", subject |-> FirstSubject]]
    /\ \E end_time \in Times \ {0}, R \in RecipientChoices \ {{}} :
          mailings = [pk \in {MailingPk} |->
                        [start_time |-> 0, end_time |-> end_time,
                         status |-> STATUS_CREATED, message |-> 1,
                         recipients |-> R, owner |-> "alice"]]
    /\ attempts = <<>>
    /\ toggle_report = [pk \in RequestPks |-> "none"]
    /\ invs = <<>>
    /\ last_call = NoCall
    /\ last_request = NoRequest
    /\ last_form = NoForm
    /\ last_read = NoRead

\* Nothing orders two requests: the web server and the command are separate
\* processes, so a handler may start and step while another is in its loop.
NextConc ==
    \/ Tick
    \/ \E u \in Users, pk \in RequestPks : send_mailing(u, pk)
    \/ \E pk \in RequestPks : send_mailings(pk)
    \/ \E i \in 1..MaxInvocations, ok \in BOOLEAN :
          SendOne(i, ok, FailureResponse, StoreUp)
    \/ \E i \in 1..MaxInvocations : Finish(i)

SpecConc == InitConc /\ [][NextConc]_vars

\* C11: however two (or more) send handlers on a mailing interleave, a
\* handler in its loop can always take its next step, every attempt row a
\* handler wrote stays in the ledger, a returned handler has sent to each of
\* its N recipients and left N rows, and two returned handlers on the same
\* mailing left 2N rows between them.
C11_InterleavedSendsBothComplete ==
    /\ \A i \in DOMAIN invs :
          /\ invs[i].pc = "loop" =>
                \/ ENABLED (\E ok \in BOOLEAN :
                              SendOne(i, ok, FailureResponse, StoreUp))
                \/ ENABLED Finish(i)
          /\ Cardinality(AttemptsOf(i)) = Len(invs[i].sent)
          /\ invs[i].pc = "returned" =>
                /\ SentTo(i) = invs[i].recips
                /\ Cardinality(AttemptsOf(i)) = Cardinality(invs[i].recips)
    /\ \A i, j \in DOMAIN invs :
          (/\ i < j
           /\ invs[i].pc = "returned" /\ invs[j].pc = "returned"
           /\ invs[i].pk = invs[j].pk) =>
              Cardinality(AttemptsOf(i) \cup AttemptsOf(j))
                 = Cardinality(invs[i].recips) + Cardinality(invs[j].recips)

\* two handlers over the same two recipients wrote their rows alternately
\* and both returned
C11_Witness ==
    /\ Len(invs) >= 2
    /\ invs[1].pc = "returned" /\ invs[2].pc = "returned"
    /\ invs[1].recips = invs[2].recips
    /\ Len(attempts) = 4
    /\ attempts[1].inv = 1 /\ attempts[2].inv = 2
    /\ attempts[3].inv = 1 /\ attempts[4].inv = 2
\* ------------------------------------------------- validation of Mailing
\* the step just taken validated a Mailing posted to a form
Validated == last_form.kind \in {"form", "admin"}

WindowErrors == last_form.errors \cap {"start_time", "end_time"}

\* C12: a Mailing posted with start_time >= end_time is refused, on create
\* and on update, through MailingForm and through Mailing.clean, whatever
\* recipients come with it; one posted with end_time = start_time + 1 and
\* start_time not before now has no error on its window and is saved when
\* its recipients are given.
C12_WindowOrderValidated ==
    Validated =>
        /\ last_form.start_time >= last_form.end_time =>
              (~last_form.saved /\ WindowErrors # {})
        /\ (/\ last_form.end_time = last_form.start_time + 1
            /\ last_form.start_time >= last_form.at) =>
              /\ WindowErrors = {}
              /\ last_form.saved <=> "recipients" \notin last_form.errors

\* an update posted with start_time = end_time was refused on end_time and
\* the row keeps its window
C12_Witness ==
    /\ Validated
    /\ ~last_form.is_new
    /\ last_form.start_time = last_form.end_time
    /\ last_form.errors = {"end_time"}
    /\ ~last_form.saved
    /\ mailings[MailingPk].start_time # last_form.start_time

\* C13 as stated: whatever creates a Mailing refuses a start_time before
\* now, and an update that moves start_time before now (with start_time <
\* end_time) is accepted.
C13_NoPastStartOnAnyCreate ==
    /\ (last_form.is_new /\ last_form.saved) =>
          last_form.start_time >= last_form.at
    /\ (/\ Validated /\ ~last_form.is_new
        /\ last_form.start_time < last_form.at
        /\ last_form.start_time < last_form.end_time) =>
          WindowErrors = {}

\* C13 amended: MailingForm and Mailing.clean refuse a new Mailing whose
\* start_time is before now; create_test_data saves its mailings without
\* validation, the last one with its whole window in the past; an update
\* that moves start_time before now (with start_time < end_time) is
\* accepted.
C13_PastStartRefusedByForms ==
    /\ (Validated /\ last_form.is_new /\ last_form.start_time < last_form.at) =>
          (~last_form.saved /\ WindowErrors # {})
    /\ last_form.kind = "create_test_data" =>
          (last_form.saved /\ last_form.end_time < last_form.at)
    /\ (/\ Validated /\ ~last_form.is_new
        /\ last_form.start_time < last_form.at
        /\ last_form.start_time < last_form.end_time) =>
          /\ WindowErrors = {}
          /\ last_form.saved <=> "recipients" \notin last_form.errors

\* an update moved start_time of the row before now
C13_Witness ==
    /\ last_form.kind = "form"
    /\ ~last_form.is_new
    /\ last_form.saved
    /\ last_form.start_time < last_form.at
    /\ mailings[MailingPk].start_time = last_form.start_time

\* C14 as stated: a new Mailing with start_time >= end_time and start_time
\* before now is answered with an error on end_time and one on start_time.
C14_BothErrorsReported ==
    (/\ Validated /\ last_form.is_new
     /\ last_form.start_time >= last_form.end_time
     /\ last_form.start_time < last_form.at) =>
        WindowErrors = {"start_time", "end_time"}

\* C14 amended: such a Mailing is answered with one error: MailingForm
\* reports start_time only (clean_start_time fails and clean() then has
\* no start_time to compare), Mailing.clean reports end_time only (its
\* first raise).
C14_OneErrorReported ==
    (/\ Validated /\ last_form.is_new
     /\ last_form.start_time >= last_form.end_time
     /\ last_form.start_time < last_form.at) =>
        /\ ~last_form.saved
        /\ WindowErrors = IF last_form.kind = "form" THEN {"start_time"}
                          ELSE {"end_time"}

\* MailingCreateView answered a window that breaks both rules with the
\* error on start_time alone
C14_Witness ==
    /\ last_form.kind = "form"
    /\ last_form.is_new
    /\ last_form.start_time >= last_form.end_time
    /\ last_form.start_time < last_form.at
    /\ last_form.errors = {"start_time"}

\* C15: every Mailing row has start_time < end_time.
C15_StartBeforeEnd ==
    \A pk \in DOMAIN mailings :
        mailings[pk].start_time < mailings[pk].end_time

\* after a batch for the row returned, an update with end_time before
\* start_time was refused
C15_Witness ==
    /\ last_form.kind = "form"
    /\ ~last_form.is_new
    /\ last_form.start_time > last_form.end_time
    /\ ~last_form.saved
    /\ Len(invs) = 1 /\ invs[1].pc = "returned"
    /\ Deactivated(MailingPk)
    /\ mailings[MailingPk].status = STATUS_STARTED

\* ------------------------------------------------------- status exposure
DerivedStatus(pk) ==
    ComputeStatus(mailings[pk].start_time, mailings[pk].end_time, now)

\* C16: every status a page shows or counts is the status derived from the
\* window at the time of the read, and a send handler enters its loop only
\* for a row whose stored status is the derived one.
C16_NoStaleStatusObserved ==
    /\ \A pk \in DOMAIN last_read.shown : last_read.shown[pk] = DerivedStatus(pk)
    /\ last_request.entered # 0 =>
          mailings[last_request.pk].status = DerivedStatus(last_request.pk)

\* ------------------------------------------------ update_status, framing
\* C17: a step that is an update_status call leaves every Mailing row as
\* it was but for the status of the row of the call, leaves the clients,
\* the attempt ledger and what toggle_mailing_active reported untouched,
\* sets the status it computed when it writes, and writes nothing (the
\* table is the same) when the instance already held that status.
C17_UpdateStatusFrame ==
    [][last_call'.pk # 0 =>
          /\ DOMAIN mailings' = DOMAIN mailings
          /\ \A pk \in DOMAIN mailings :
                /\ mailings'[pk] = [mailings[pk] EXCEPT !.status = mailings'[pk].status]
                /\ pk # last_call'.pk => mailings'[pk] = mailings[pk]
          /\ attempts' = attempts
          /\ clients' = clients
          /\ toggle_report' = toggle_report
          /\ last_call'.wrote =>
                mailings'[last_call'.pk].status = last_call'.result
          /\ last_call'.before = last_call'.result =>
                (~last_call'.wrote /\ mailings' = mailings)]_vars

\* update_status ran at the end of a batch on an instance loaded before
\* the row was edited, for a window that started in the past: it wrote the
\* status and the row kept the edited window
C17_Witness ==
    /\ last_call.pk # 0
    /\ ~last_call.fresh
    /\ last_call.wrote
    /\ last_call.start_time < now
    /\ mailings[last_call.pk].start_time # last_call.start_time
    /\ mailings[last_call.pk].status = last_call.result
    /\ attempts # <<>>

\* the instance as an update_status call left it
InstanceAfterCall ==
    [start_time |-> last_call.start_time, end_time |-> last_call.end_time,
     status |-> last_call.result]

\* C18: right after an update_status call, a second call at the same
\* instant, on the same instance, computes the same status, does not write
\* and leaves the table as it is; so does a call on the row loaded again
\* when the first call was made on a freshly loaded row.
C18_UpdateStatusIdempotent ==
    last_call.pk # 0 =>
        /\ StatusCall(last_call.pk, InstanceAfterCall, now, FALSE).result
              = last_call.result
        /\ ~StatusCall(last_call.pk, InstanceAfterCall, now, FALSE).wrote
        /\ RowsAfterUpdateStatus(last_call.pk, InstanceAfterCall, now) = mailings
        /\ last_call.fresh =>
              /\ ~StatusCall(last_call.pk, mailings[last_call.pk], now, TRUE).wrote
              /\ RowsAfterUpdateStatus(last_call.pk, mailings[last_call.pk], now)
                    = mailings

\* a call found the row at the status Started that an earlier call had
\* written, and wrote nothing
C18_Witness ==
    /\ last_call.pk # 0
    /\ last_call.fresh
    /\ last_call.before = STATUS_STARTED
    /\ last_call.result = STATUS_STARTED
    /\ ~last_call.wrote

\* ------------------------------------------------------ the attempt ledger
\* C19: a MailingAttempt row stays in the ledger, every field as it was
\* written, for as long as its Mailing exists.
C19_AttemptsImmutable ==
    [][\A k \in DOMAIN attempts :
          attempts[k].mailing \in DOMAIN mailings' =>
              \E j \in DOMAIN attempts' : attempts'[j] = attempts[k]]_vars

\* a step that adds to the ledger is one pass of the loop of handler i: it
\* adds one row, for the recipient the handler was about to send to, of the
\* handler's mailing, with the outcome of that transport call
LoopPassOf(i) ==
    /\ invs[i].pc = "loop"
    /\ invs[i].todo # <<>>
    /\ Len(invs'[i].sent) = Len(invs[i].sent) + 1
    /\ attempts' = Append(attempts, attempts'[Len(attempts')])
    /\ LET row == attempts'[Len(attempts')]
           call == invs'[i].sent[Len(invs'[i].sent)]
       IN /\ row.inv = i
          /\ row.mailing = invs[i].pk
          /\ row.recipient_email = Head(invs[i].todo)
          /\ row.recipient_email \in invs[i].recips
          /\ call.client = row.recipient_email
          /\ call.ok <=> row.status = STATUS_SUCCESS

\* C20: the ledger grows only by a pass of the loop of a send handler
\* (never by a form, toggle, status recompute, deletion, create_test_data
\* or an admin screen), and the row added is the one of that handler's
\* transport call to a recipient of its mailing.
C20_AttemptsOnlyFromSends ==
    [][Len(attempts') > Len(attempts) =>
          \E i \in DOMAIN invs : LoopPassOf(i)]_vars

\* create_test_data has run, its second mailing was sent and the only row
\* of the ledger is the one of that batch
C20_Witness ==
    /\ Len(TestWindows) \in DOMAIN mailings
    /\ Len(invs) = 1 /\ invs[1].pc = "returned"
    /\ invs[1].pk = MailingPk + 1
    /\ Len(attempts) = 1
    /\ attempts[1].inv = 1
    /\ attempts[1].recipient_email = TestClient

\* ------------------------------------------- clients, messages, ownership
\* ClientUpdateView: dispatch lets the POST through or redirects; ClientForm
\* saves email, full_name and comment (the owner is no field of the form)
ClientUpdate(u, c, full_name) ==
    /\ c \in DOMAIN clients
    /\ clients' = IF MayMutate(u, clients[c].owner)
                  THEN [clients EXCEPT ![c].full_name = full_name]
                  ELSE clients
    /\ last_form' = IF MayMutate(u, clients[c].owner) THEN NoForm
                    ELSE DeniedResponse(u, clients[c].owner)
    /\ last_call' = NoCall
    /\ last_request' = NoRequest
    /\ last_read' = NoRead
    /\ UNCHANGED <<messages, now, mailings, attempts, toggle_report, invs>>

\* MessageUpdateView: dispatch lets the POST through or redirects;
\* MessageForm saves subject and body
MessageUpdate(u, x, subject) ==
    /\ x \in DOMAIN messages
    /\ messages' = IF MayMutate(u, messages[x].owner)
                   THEN [messages EXCEPT ![x].subject = subject]
                   ELSE messages
    /\ last_form' = IF MayMutate(u, messages[x].owner) THEN NoForm
                    ELSE DeniedResponse(u, messages[x].owner)
    /\ last_call' = NoCall
    /\ last_request' = NoRequest
    /\ last_read' = NoRead
    /\ UNCHANGED <<now, clients, mailings, attempts, toggle_report, invs>>

\* variant: Mailing.message with on_delete=DO_NOTHING
MailingsOfMessage_DoNothing(x) == {}

\* Mailing.message, on_delete=CASCADE: the rows that go with Message x
MailingsOfMessage(x) == {pk \in DOMAIN mailings : mailings[pk].message = x}

\* MessageDeleteView: dispatch lets the POST through or redirects; the row
\* goes, by on_delete=CASCADE every Mailing of the message goes, and with
\* each of them its attempts
MessageDelete(u, x) ==
    /\ x \in DOMAIN messages
    /\ messages' = IF MayMutate(u, messages[x].owner)
                   THEN [y \in DOMAIN messages \ {x} |-> messages[y]]
                   ELSE messages
    /\ mailings' = IF MayMutate(u, messages[x].owner)
                   THEN [pk \in DOMAIN mailings \ MailingsOfMessage(x) |-> mailings[pk]]
                   ELSE mailings
    /\ attempts' = IF MayMutate(u, messages[x].owner)
                   THEN SelectSeq(attempts,
                                  LAMBDA r : r.mailing \notin MailingsOfMessage(x))
                   ELSE attempts
    /\ last_form' = IF MayMutate(u, messages[x].owner) THEN NoForm
                    ELSE DeniedResponse(u, messages[x].owner)
    /\ last_call' = NoCall
    /\ last_request' = NoRequest
    /\ last_read' = NoRead
    /\ UNCHANGED <<now, clients, toggle_report, invs>>

\* alice and the administrator have each registered clients and written a
\* message; no Mailing yet
InitOwners ==
    /\ now = 0
    /\ clients = [c \in ClientIds |->
                    [owner |-> IF c = 1 THEN "alice" ELSE "adm",
                     full_name |-> FirstName]]
    /\ messages = [x \in MessageIds |->
                     [owner |-> IF x = 1 THEN "alice" ELSE "adm",
                      subject |-> FirstSubject]]
    /\ mailings = <<>>
    /\ attempts = <<>>
    /\ toggle_report = [pk \in RequestPks |-> "none"]
    /\ invs = <<>>
    /\ last_call = NoCall
    /\ last_request = NoRequest
    /\ last_form = NoForm
    /\ last_read = NoRead

\* The update and delete views of the three models, posted to by every
\* account, next to what makes the rows they act on: the mailing form,
\* create_test_data and one send batch, all at one instant.  A Mailing is
\* made while no batch has run (the model keeps one pk for the rows made
\* through the form); a mailing form posts every client it offers or
\* none; the texts edited are those of alice's first client and message;
\* clients are deleted from the highest id downwards; of the messages of
\* create_test_data the second may be deleted.
OwnersNext ==
    \/ \E u \in Accounts, start_time \in {now, MaxTime} :
          \E message \in MessageChoices(u), R \in {{}, OwnClients(u)} :
             invs = <<>> /\ MailingCreate(u, message, start_time, MaxTime, R)
    \/ \E u \in Accounts, pk \in DOMAIN mailings :
          \E message \in MessageChoices(u), R \in {{}, OwnClients(u)} :
             MailingUpdate(u, pk, message, mailings[pk].start_time,
                           mailings[pk].end_time, R)
    \/ \E u \in Accounts, pk \in DOMAIN mailings : MailingDelete(u, pk)
    \/ \E u \in Accounts, full_name \in Names : ClientUpdate(u, 1, full_name)
    \/ \E u \in Accounts, c \in DOMAIN clients : LastClient(c) /\ ClientDelete(u, c)
    \/ \E u \in Accounts, subject \in Subjects : MessageUpdate(u, 1, subject)
    \/ \E u \in Accounts, x \in DOMAIN messages \cap (MessageIds \cup {TestMessage(2)}) :
          MessageDelete(u, x)
    \/ invs = <<>> /\ create_test_data
    \/ \E u \in Accounts, pk \in DOMAIN mailings : invs = <<>> /\ send_mailing(u, pk)
    \/ \E ok \in BOOLEAN : SendOne(1, ok, FailureResponse, StoreUp)
    \/ Finish(1)

SpecOwners == InitOwners /\ [][OwnersNext]_vars

\* ------------------------------------------------------ cascading deletion
\* every Mailing refers to a Message that exists and every MailingAttempt to
\* a Mailing that exists
ReferencesHold ==
    /\ \A pk \in DOMAIN mailings : mailings[pk].message \in DOMAIN messages
    /\ \A k \in DOMAIN attempts : attempts[k].mailing \in DOMAIN mailings

\* C21: a step that deletes Message x deletes exactly the Mailings of x and
\* leaves the others as they were, and deletes exactly the attempts of those
\* Mailings and leaves the others, in their order; and at all times every
\* Mailing refers to a Message that exists and every MailingAttempt to a
\* Mailing that exists.
C21_MessageDeleteCascades ==
    /\ []ReferencesHold
    /\ [][\A x \in DOMAIN messages \ DOMAIN messages' :
            /\ DOMAIN mailings'
                  = {pk \in DOMAIN mailings : mailings[pk].message # x}
            /\ \A pk \in DOMAIN mailings' : mailings'[pk] = mailings[pk]
            /\ attempts' = SelectSeq(attempts,
                              LAMBDA r : mailings[r.mailing].message # x)]_vars

\* the second message of create_test_data was deleted after its mailing had
\* been sent: the mailing and its attempt are gone, the two other mailings
\* of create_test_data are there
C21_Witness ==
    /\ TestMessage(2) \notin DOMAIN messages
    /\ DOMAIN mailings = {1, 3}
    /\ Len(invs) = 1 /\ invs[1].pk = 2 /\ Len(invs[1].sent) = 1
    /\ invs[1].pc = "returned"
    /\ attempts = <<>>

\* --------------------------------------------------------- the active flag
\* the is_active a request reads from row pk after loading it: the table
\* has no such column (see LoadedIsActive), so every row reads alike
PersistedIsActive(pk) == Truthy(LoadedIsActive)

\* C22: a toggle_mailing_active call by a caller who can manage users flips
\* the flag (the action it reports differs from the one before, and what a
\* later request reads from the row is what the call reported) and leaves
\* the Mailing rows as they are; a call by another caller changes nothing;
\* no other step (status recompute, send, form) changes the flag.
C22_ToggleFlipsIsActive ==
    [][\A pk \in DOMAIN mailings :
          /\ (\E u \in Users : can_manage_users(u) /\ toggle_mailing_active(u, pk)) =>
                /\ Deactivated(pk)' # Deactivated(pk)
                /\ PersistedIsActive(pk)' = ~Deactivated(pk)'
                /\ mailings' = mailings /\ attempts' = attempts
          /\ (\E u \in Users : ~can_manage_users(u) /\ toggle_mailing_active(u, pk)) =>
                /\ toggle_report' = toggle_report
                /\ mailings' = mailings /\ attempts' = attempts
          /\ ~(\E u \in Users : toggle_mailing_active(u, pk)) =>
                /\ toggle_report'[pk] = toggle_report[pk]
                /\ PersistedIsActive(pk)' = PersistedIsActive(pk)]_vars

\* ------------------------------------------- the ledger and the transport
\* The send handlers, one at a time, with a transport that fails with one
\* of several diagnostics and a database that may refuse an INSERT.
StoreNext ==
    \/ Tick
    \/ \E u \in Users, pk \in RequestPks : AllReturned /\ send_mailing(u, pk)
    \/ \E pk \in RequestPks : AllReturned /\ send_mailings(pk)
    \/ \E i \in 1..MaxInvocations, ok \in BOOLEAN :
          \E diag \in Diagnostics, db \in StoreOutcomes : SendOne(i, ok, diag, db)
    \/ \E i \in 1..MaxInvocations : Finish(i)

SpecStore == InitConc /\ [][StoreNext]_vars

\* the transport calls handler i made for the recipient of ledger row k
CallsFor(i, k) ==
    {j \in DOMAIN invs[i].sent :
        invs[i].sent[j].client = attempts[k].recipient_email}

\* C23: every attempt row of a handler is the row of one transport call of
\* that handler, to the recipient the row names: it is Success with the
\* fixed text iff that call succeeded and Failed with the diagnostic of the
\* call iff it failed.
C23_AttemptMatchesTransport ==
    \A i \in DOMAIN invs : \A k \in AttemptsOf(i) :
        /\ Cardinality(CallsFor(i, k)) = 1
        /\ \A j \in CallsFor(i, k) :
              /\ (/\ attempts[k].status = STATUS_SUCCESS
                  /\ attempts[k].server_response = SuccessResponse)
                    <=> invs[i].sent[j].ok
              /\ (/\ attempts[k].status = STATUS_FAILED
                  /\ attempts[k].server_response = invs[i].sent[j].diag)
                    <=> ~invs[i].sent[j].ok

\* C24: when the create of an attempt row fails, the handler has raised,
\* the transport call of that pass was its last and left no row; and no
\* Failed row stands for a transport call that succeeded.
C24_StoreFailureStopsBatch ==
    \A i \in DOMAIN invs :
        /\ \A j \in DOMAIN invs[i].sent :
              invs[i].sent[j].create_failed =>
                  /\ invs[i].pc = "raised"
                  /\ j = Len(invs[i].sent)
                  /\ \A k \in AttemptsOf(i) :
                        attempts[k].recipient_email # invs[i].sent[j].client
        /\ \A k \in AttemptsOf(i) : \A j \in CallsFor(i, k) :
              attempts[k].status = STATUS_FAILED => ~invs[i].sent[j].ok

\* ------------------------------------------------------- refused requests
\* user u is neither the owner of a row of that owner nor an administrator
Outsider(u, owner) == owner # u /\ ~(is_admin_role(u) \/ IsSuperuser[u])

\* the step was refused: the tables are as before and the answer says so
Refused ==
    /\ UNCHANGED <<clients, messages, mailings, attempts, toggle_report, invs>>
    /\ last_form'.kind = "denied"

\* the POST of user u to the update or the delete view of Mailing pk
MailingPost(u, pk) ==
    \/ MailingDelete(u, pk)
    \/ \E message \in MessageChoices(u), R \in {{}, OwnClients(u)} :
          MailingUpdate(u, pk, message, mailings[pk].start_time,
                        mailings[pk].end_time, R)

ClientPost(u, c) ==
    \/ ClientDelete(u, c)
    \/ \E full_name \in Names : ClientUpdate(u, c, full_name)

MessagePost(u, x) ==
    \/ MessageDelete(u, x)
    \/ \E subject \in Subjects : MessageUpdate(u, x, subject)

\* C25: whenever user u is neither the owner of a Client, Message or
\* Mailing nor an administrator (u is a regular user or a manager), the
\* POST of u to the update or delete view of that row is answered, and
\* every way it can be answered leaves every table as it was and is the
\* refusal.
C25_OutsiderMutationRefused ==
    \A u \in Accounts :
        /\ \A pk \in DOMAIN mailings :
              Outsider(u, mailings[pk].owner) =>
                  /\ ENABLED MailingPost(u, pk)
                  /\ ~ENABLED (MailingPost(u, pk) /\ ~Refused)
        /\ \A c \in DOMAIN clients :
              Outsider(u, clients[c].owner) =>
                  /\ ENABLED ClientPost(u, c)
                  /\ ~ENABLED (ClientPost(u, c) /\ ~Refused)
        /\ \A x \in DOMAIN messages :
              Outsider(u, messages[x].owner) =>
                  /\ ENABLED MessagePost(u, x)
                  /\ ~ENABLED (MessagePost(u, x) /\ ~Refused)

\* a manager's POST was refused while alice's mailing, with its message,
\* its recipient and an attempt, is there
C25_Witness ==
    /\ last_form.kind = "denied"
    /\ last_form.errors = {"manager_read_only"}
    /\ MailingPk \in DOMAIN mailings
    /\ mailings[MailingPk].owner = "alice"
    /\ mailings[MailingPk].message \in DOMAIN messages
    /\ mailings[MailingPk].recipients # {}
    /\ \E k \in DOMAIN attempts : attempts[k].mailing = MailingPk

\* ------------------------------------------------- the clock and a batch
\* handler i wrote a MailingAttempt row in the step; auto_now_add stamps the
\* row with the time of the step
Recorded(i) ==
    /\ i \in DOMAIN invs
    /\ Len(attempts') = Len(attempts) + 1
    /\ attempts'[Len(attempts')].inv = i

\* C26: every MailingAttempt is recorded at an instant inside the window
\* its mailing had when the handler that writes it was admitted, also when
\* the clock advances while the batch is in progress.
C26_AttemptInsideWindow ==
    [][\A i \in 1..MaxInvocations :
          Recorded(i) => invs[i].m.start_time <= now /\ now <= invs[i].m.end_time]_vars

\* --------------------------------------------- a window nobody edits
\* the windows posted here: one unit long, so that the clock can pass them
ShortWindows == {w \in Windows : w[2] = w[1] + 1}

\* Everything that reads or writes a stored status except the edit of a
\* Mailing: the clock, new rows, the pages, the toggle and the send
\* handlers, which nothing orders among themselves or with the pages.
UneditedNext ==
    \/ Tick
    \/ \E u \in Users, w \in ShortWindows, R \in FormRecipients :
          \E message \in MessageChoices(u) :
             invs = <<>> /\ MailingCreate(u, message, w[1], w[2], R)
    \/ invs = <<>> /\ create_test_data
    \/ \E u \in Users, pk \in RequestPks : MailingDetail(u, pk)
    \/ \E u \in Users : MailingList(u)
    \/ \E u \in Users \cup {Anonymous} : HomeView(u)
    \/ \E u \in Users : user_statistics(u)
    \/ \E u \in Users : toggle_mailing_active(u, MailingPk)
    \/ \E u \in Users, pk \in RequestPks : send_mailing(u, pk)
    \/ \E pk \in RequestPks : send_mailings(pk)
    \/ \E i \in 1..MaxInvocations, ok \in BOOLEAN :
          SendOne(i, ok, FailureResponse, StoreUp)
    \/ \E i \in 1..MaxInvocations : Finish(i)

SpecUnedited == Init /\ [][UneditedNext]_vars

\* the place of a status on the way Created -> Started -> Completed
StatusRank(status) ==
    IF status = STATUS_CREATED THEN 1
    ELSE IF status = STATUS_STARTED THEN 2
    ELSE 3

\* C27: while no window is edited, no step of a read, a send, a toggle or
\* a recompute moves the stored status of a Mailing backwards on the way
\* Created -> Started -> Completed.
C27_StatusOnlyMovesForward ==
    [][\A pk \in DOMAIN mailings \cap DOMAIN mailings' :
          /\ mailings'[pk].start_time = mailings[pk].start_time
          /\ mailings'[pk].end_time = mailings[pk].end_time
          /\ StatusRank(mailings'[pk].status) >= StatusRank(mailings[pk].status)]_vars

\* a handler admitted on a row stored as Created has returned after a page
\* request stored Started, and the row has since reached Completed
C27_Witness ==
    /\ MailingPk \in DOMAIN mailings
    /\ mailings[MailingPk].status = STATUS_COMPLETED
    /\ mailings[MailingPk].owner = "alice"
    /\ \E i \in DOMAIN invs :
          /\ invs[i].pk = MailingPk
          /\ invs[i].pc = "returned"
          /\ invs[i].verdict = "ok"
    /\ Deactivated(MailingPk)

\* C28: once the stored status of a Mailing is Completed, and as long as
\* its window is not edited, no MailingAttempt is recorded for it any more,
\* also not by a handler that was admitted before end_time and is still in
\* its loop when another request stores the status.
C28_NoAttemptAfterCompleted ==
    [][\A pk \in DOMAIN mailings :
          mailings[pk].status = STATUS_COMPLETED =>
              ~\E i \in 1..MaxInvocations : Recorded(i) /\ invs[i].pk = pk]_vars

\* C29: the Message of a Mailing and every Client among its recipients
\* have the owner of the Mailing, whoever created or edited it.
C29_SameOwnerThroughout ==
    \A pk \in DOMAIN mailings :
        /\ mailings[pk].message \in DOMAIN messages
              => messages[mailings[pk].message].owner = mailings[pk].owner
        /\ \A c \in mailings[pk].recipients :
              c \in DOMAIN clients => clients[c].owner = mailings[pk].owner
====
